---- MODULE Spec2Model ----
(***************************************************************************)
(* ROG.py: continuation-pagination over a token-limited chat completion    *)
(* endpoint.  call_gpt (buffered) and call_gpt_stream (generator) drive    *)
(* rounds through accumulate_response; the streaming branch of             *)
(* generate_long_response filters the chunks it pulls from the generator.  *)
(*                                                                         *)
(* Text is a sequence of symbols.  Text that comes from the transport is   *)
(* spelled character by character over Alphabet; each string literal of    *)
(* the source that is only ever concatenated is one symbol.                *)
(***************************************************************************)
EXTENDS Integers, Sequences, FiniteSets, TLC

VARIABLES
    stream,                \* generate_long_response's stream argument
    stop_sequence,         \* the stop_sequence argument
    messages,              \* the messages list handed to the driver
    pc,                    \* position of the driver / its consumer
    accumulated_response,  \* driver local
    conversation_ongoing,  \* driver local
    conversation,          \* driver local
    current_response,      \* driver local
    value,                 \* call_gpt_stream: the chunk at the yield
    result,                \* what call_gpt returned
    double_dagger_count,   \* generate_long_response local
    printed,               \* the display: one entry per print call
    exc,                   \* the exception that reached the driver's caller
    calls,                 \* transport: number of completions.create calls
    delivered,             \* transport: per call that returned, what it delivered
    yielded,               \* what the consumer of call_gpt_stream received
    thrown                 \* transport: the exception it raised

vars == <<stream, stop_sequence, messages, pc, accumulated_response,
          conversation_ongoing, conversation, current_response, value, result,
          double_dagger_count, printed, exc, calls, delivered, yielded, thrown>>

----------------------------------------------------------------------------
(* Bounds *)

MaxRounds == 3
MaxChunks == 5
MaxStreamRounds == 2

----------------------------------------------------------------------------
(* Text *)

\* The double dagger character U+2021.
Dagger == "dagger"

Alphabet == {Dagger, "a", " "}

Whitespace == {" "}

Repeat(c, n) == [i \in 1..n |-> c]

\* The length of the default stop sequence and of the run the filter waits for.
StopRunLength == 5

DefaultStopSequence == Repeat(Dagger, StopRunLength)

\* A stop sequence a caller may configure instead of the default.
CustomStopSequence == <<"a", Dagger>>

StopSequences == {DefaultStopSequence, CustomStopSequence}

NoValue == "None"

\* Python's  sub in s
Contains(sub, s) ==
    \E i \in 0..(Len(s) - Len(sub)) : SubSeq(s, i + 1, i + Len(sub)) = sub

\* Python's  s.replace(old, "")  for non-empty old: leftmost occurrences,
\* not overlapping, in one pass.
RECURSIVE Replace(_, _)
Replace(s, old) ==
    IF Len(s) < Len(old) THEN s
    ELSE IF SubSeq(s, 1, Len(old)) = old
         THEN Replace(SubSeq(s, Len(old) + 1, Len(s)), old)
         ELSE <<Head(s)>> \o Replace(Tail(s), old)

\* Python's  s.strip()
Strip(s) ==
    LET keep == {i \in 1..Len(s) : s[i] \notin Whitespace}
    IN  IF keep = {} THEN <<>>
        ELSE SubSeq(s, CHOOSE i \in keep : \A j \in keep : i <= j,
                       CHOOSE i \in keep : \A j \in keep : i >= j)

\* The concatenation of a sequence of texts.
RECURSIVE Concat(_)
Concat(ss) == IF ss = <<>> THEN <<>> ELSE Head(ss) \o Concat(Tail(ss))

----------------------------------------------------------------------------
(* Messages *)

SystemPrompt(stop) == <<"system_prompt:'">> \o stop \o <<"'">>

UserPrompt == <<"Explain quantum computing.">>

generate_system_message(system_message) ==
    [role |-> "system", content |-> system_message]

generate_user_message(user_message) ==
    [role |-> "user", content |-> user_message]

InitialMessages(stop) ==
    <<generate_system_message(SystemPrompt(stop)), generate_user_message(UserPrompt)>>

\* SetLastContent adding a user message instead of rewriting the last one.
SetLastContentAppend(msgs, text) == Append(msgs, generate_user_message(text))

\* messages[-1]['content'] = conversation
SetLastContent(msgs, text) ==
    [msgs EXCEPT ![Len(msgs)] = [@ EXCEPT !.content = text]]

LastContent(msgs) == msgs[Len(msgs)].content

----------------------------------------------------------------------------
(* accumulate_response *)

AssistantTag == <<"\nAssistant:">>

ContinueDirective == <<"\nUser:Continue immediately after where you left off.">>

\* AccAppend with the operands exchanged.
AccAppendReversed(accumulated, current) == current \o accumulated

AccAppend(accumulated, current) == accumulated \o current

\* AccOngoing testing only the end of the fragment.
AccOngoingSuffix(current, accumulated, ongoing, stop) ==
    IF /\ Len(current) >= Len(stop)
       /\ SubSeq(current, Len(current) - Len(stop) + 1, Len(current)) = stop
    THEN FALSE ELSE ongoing

\* AccOngoing testing the accumulated text instead of the fragment.
AccOngoingCumulative(current, accumulated, ongoing, stop) ==
    IF Contains(stop, accumulated) THEN FALSE ELSE ongoing

AccOngoing(current, accumulated, ongoing, stop) ==
    IF Contains(stop, current) THEN FALSE ELSE ongoing

\* AccConversation extending the conversation only while the flag is set.
AccConversationNonTerminal(current, ongoing, conv) ==
    IF ongoing THEN conv \o AssistantTag \o current \o ContinueDirective ELSE conv

AccConversation(current, ongoing, conv) ==
    conv \o AssistantTag \o current \o ContinueDirective

accumulate_response(current, accumulated, ongoing, conv, stop) ==
    LET acc == AccAppend(accumulated, current)
        on  == AccOngoing(current, acc, ongoing, stop)
    IN  [accumulated_response |-> acc,
         conversation_ongoing |-> on,
         conversation         |-> AccConversation(current, on, conv)]

----------------------------------------------------------------------------
(* The transport *)

\* What one completions.create call may return as message content.
Fragments ==
    { <<>>,
      <<"a">>,
      <<" ", "a", " ">>,
      Repeat(Dagger, 2),
      Repeat(Dagger, 3),
      <<"a">> \o DefaultStopSequence,
      <<" ">> \o DefaultStopSequence \o <<" ">>,
      <<"a", "a", Dagger, Dagger>>,
      DefaultStopSequence \o <<"a">> \o DefaultStopSequence }

\* What one streamed chunk may carry as delta.content (<<>>: empty or None).
Chunks ==
    { <<>>,
      <<"a">>,
      <<Dagger>>,
      Repeat(Dagger, 2),
      <<"a", Dagger>> }

Exceptions == {"APIError"}

ChunkCount(d) == Len(Concat(d))

----------------------------------------------------------------------------
(* call_gpt *)

CleanResponse(accumulated, stop) == Strip(Replace(accumulated, stop))

\* CallGptHandler raising an exception of its own.
CallGptHandlerWrap(e) == [pc |-> "raised", exc |-> "RuntimeError"]

CallGptHandler(e) == [pc |-> "raised", exc |-> e]

\* One pass of the while loop in which the transport returns fragment f.
CallGptRound(f) ==
    /\ ~stream /\ pc = "while" /\ conversation_ongoing
    /\ calls < MaxRounds
    /\ calls' = calls + 1
    /\ delivered' = Append(delivered, <<f>>)
    /\ current_response' = f
    /\ LET r == accumulate_response(f, accumulated_response, conversation_ongoing,
                                    conversation, stop_sequence)
       IN  /\ accumulated_response' = r.accumulated_response
           /\ conversation_ongoing' = r.conversation_ongoing
           /\ conversation' = r.conversation
           /\ messages' = SetLastContent(messages, r.conversation)
    /\ UNCHANGED <<stream, stop_sequence, pc, value, result, double_dagger_count,
                   printed, exc, yielded, thrown>>

\* One pass of the while loop in which the transport raises e.
CallGptRaise(e) ==
    /\ ~stream /\ pc = "while" /\ conversation_ongoing
    /\ calls < MaxRounds
    /\ calls' = calls + 1
    /\ thrown' = e
    /\ LET h == CallGptHandler(e)
       IN  pc' = h.pc /\ exc' = h.exc
    /\ UNCHANGED <<stream, stop_sequence, messages, accumulated_response,
                   conversation_ongoing, conversation, current_response, value,
                   result, double_dagger_count, printed, delivered, yielded>>

\* The loop has ended: clean, return, and generate_long_response prints.
CallGptReturn ==
    /\ ~stream /\ pc = "while" /\ ~conversation_ongoing
    /\ accumulated_response' = CleanResponse(accumulated_response, stop_sequence)
    /\ result' = Strip(accumulated_response')
    /\ printed' = Append(printed, result')
    /\ pc' = "returned"
    /\ UNCHANGED <<stream, stop_sequence, messages, conversation_ongoing,
                   conversation, current_response, value, double_dagger_count,
                   exc, calls, delivered, yielded, thrown>>

----------------------------------------------------------------------------
(* call_gpt_stream, and the loop of generate_long_response that consumes it *)

StreamHandler(e) == [pc |-> "raised", exc |-> e]

\* Yield skipping a chunk equal to the one before it.
YieldDistinct(seen, v) ==
    IF seen # <<>> /\ seen[Len(seen)] = v THEN seen ELSE Append(seen, v)

\* Yield keeping back a chunk that carries a dagger.
YieldFiltered(seen, v) ==
    IF Contains(<<Dagger>>, v) THEN seen ELSE Append(seen, v)

\* The chunks handed to the consumer, after the generator's yield of v.
Yield(seen, v) == Append(seen, v)

\* The while loop starts a round: completions.create returns a stream.
StreamCreate ==
    /\ stream /\ pc = "while" /\ conversation_ongoing
    /\ calls < MaxStreamRounds
    /\ calls' = calls + 1
    /\ delivered' = Append(delivered, <<>>)
    /\ current_response' = <<>>
    /\ pc' = "for"
    /\ UNCHANGED <<stream, stop_sequence, messages, accumulated_response,
                   conversation_ongoing, conversation, value, result,
                   double_dagger_count, printed, exc, yielded, thrown>>

\* The while loop starts a round: completions.create raises e.
StreamCreateRaise(e) ==
    /\ stream /\ pc = "while" /\ conversation_ongoing
    /\ calls < MaxStreamRounds
    /\ calls' = calls + 1
    /\ thrown' = e
    /\ LET h == StreamHandler(e)
       IN  pc' = h.pc /\ exc' = h.exc
    /\ UNCHANGED <<stream, stop_sequence, messages, accumulated_response,
                   conversation_ongoing, conversation, current_response, value,
                   result, double_dagger_count, printed, delivered, yielded>>

\* The response iterator delivers a chunk whose delta.content is v; a non-empty
\* one is yielded and the generator is suspended at the yield.
StreamChunk(v) ==
    /\ stream /\ pc = "for"
    /\ ChunkCount(delivered) < MaxChunks
    /\ delivered' = [delivered EXCEPT ![Len(delivered)] = Append(@, v)]
    /\ value' = v
    /\ IF v # <<>>
       THEN yielded' = Yield(yielded, v) /\ pc' = "yield"
       ELSE yielded' = yielded /\ pc' = "for"
    /\ UNCHANGED <<stream, stop_sequence, messages, accumulated_response,
                   conversation_ongoing, conversation, current_response, result,
                   double_dagger_count, printed, exc, calls, thrown>>

\* The response iterator raises e.
StreamIterRaise(e) ==
    /\ stream /\ pc = "for"
    /\ thrown' = e
    /\ LET h == StreamHandler(e)
       IN  pc' = h.pc /\ exc' = h.exc
    /\ UNCHANGED <<stream, stop_sequence, messages, accumulated_response,
                   conversation_ongoing, conversation, current_response, value,
                   result, double_dagger_count, printed, calls, delivered, yielded>>

\* The response iterator is exhausted: the round's fragment is accumulated.
StreamRoundEnd ==
    /\ stream /\ pc = "for"
    /\ LET r == accumulate_response(current_response, accumulated_response,
                                    conversation_ongoing, conversation, stop_sequence)
       IN  /\ accumulated_response' = r.accumulated_response
           /\ conversation_ongoing' = r.conversation_ongoing
           /\ conversation' = r.conversation
           /\ messages' = SetLastContent(messages, r.conversation)
    /\ pc' = "while"
    /\ UNCHANGED <<stream, stop_sequence, current_response, value, result,
                   double_dagger_count, printed, exc, calls, delivered, yielded,
                   thrown>>

\* The while loop has ended: the generator returns and the consumer's for ends.
StreamExhausted ==
    /\ stream /\ pc = "while" /\ ~conversation_ongoing
    /\ pc' = "end"
    /\ UNCHANGED <<stream, stop_sequence, messages, accumulated_response,
                   conversation_ongoing, conversation, current_response, value,
                   result, double_dagger_count, printed, exc, calls, delivered,
                   yielded, thrown>>

\* HasDagger by equality instead of membership.
HasDaggerOnly(chunk) == chunk = <<Dagger>>

HasDagger(chunk) == Contains(<<Dagger>>, chunk)

FilterCount(count, chunk) == count + 1

FilterEmit(count, chunk) == Repeat(Dagger, count) \o chunk

\* Resume keeping only the newest chunk as the round's fragment.
ResumeOverwrite ==
    /\ current_response' = value
    /\ pc' = "for"

\* Resume putting the chunk in front of the round's fragment.
ResumePrepend ==
    /\ current_response' = value \o current_response
    /\ pc' = "for"

\* The generator continues after its yield, up to its next request for a chunk.
Resume ==
    /\ current_response' = current_response \o value
    /\ pc' = "for"

\* The consumer's loop body on a chunk with a dagger, short of the fifth.
FilterWithhold ==
    /\ stream /\ pc = "yield" /\ value # <<>>
    /\ HasDagger(value)
    /\ double_dagger_count' = FilterCount(double_dagger_count, value)
    /\ double_dagger_count' # StopRunLength
    /\ Resume
    /\ UNCHANGED <<stream, stop_sequence, messages, accumulated_response,
                   conversation_ongoing, conversation, value, result, printed,
                   exc, calls, delivered, yielded, thrown>>

\* FilterBreak going on to the next chunk instead of leaving the loop.
FilterBreakContinue ==
    /\ stream /\ pc = "yield" /\ value # <<>>
    /\ Contains(<<Dagger>>, value)
    /\ double_dagger_count' = double_dagger_count + 1
    /\ double_dagger_count' = StopRunLength
    /\ current_response' = current_response \o value
    /\ pc' = "for"
    /\ UNCHANGED <<stream, stop_sequence, messages, accumulated_response,
                   conversation_ongoing, conversation, value, result, printed,
                   exc, calls, delivered, yielded, thrown>>

\* The consumer's loop body on the chunk that makes the count 5: break.
FilterBreak ==
    /\ stream /\ pc = "yield" /\ value # <<>>
    /\ HasDagger(value)
    /\ double_dagger_count' = FilterCount(double_dagger_count, value)
    /\ double_dagger_count' = StopRunLength
    /\ pc' = "break"
    /\ UNCHANGED <<stream, stop_sequence, messages, accumulated_response,
                   conversation_ongoing, conversation, current_response, value,
                   result, printed, exc, calls, delivered, yielded, thrown>>

\* The consumer's loop body on a chunk without a dagger: print and reset.
FilterPrint ==
    /\ stream /\ pc = "yield" /\ value # <<>>
    /\ ~HasDagger(value)
    /\ printed' = Append(printed, FilterEmit(double_dagger_count, value))
    /\ double_dagger_count' = 0
    /\ Resume
    /\ UNCHANGED <<stream, stop_sequence, messages, accumulated_response,
                   conversation_ongoing, conversation, value, result, exc, calls,
                   delivered, yielded, thrown>>

----------------------------------------------------------------------------
(* generate_long_response *)

Init ==
    /\ stream \in BOOLEAN
    /\ stop_sequence \in StopSequences
    /\ messages = InitialMessages(stop_sequence)
    /\ pc = "while"
    /\ accumulated_response = <<>>
    /\ conversation_ongoing = TRUE
    /\ conversation = LastContent(messages)
    /\ current_response = <<>>
    /\ value = NoValue
    /\ result = NoValue
    /\ double_dagger_count = 0
    /\ printed = <<>>
    /\ exc = NoValue
    /\ calls = 0
    /\ delivered = <<>>
    /\ yielded = <<>>
    /\ thrown = NoValue

Next ==
    \/ \E f \in Fragments : CallGptRound(f)
    \/ \E e \in Exceptions : CallGptRaise(e)
    \/ CallGptReturn
    \/ StreamCreate
    \/ \E e \in Exceptions : StreamCreateRaise(e)
    \/ \E v \in Chunks : StreamChunk(v)
    \/ \E e \in Exceptions : StreamIterRaise(e)
    \/ StreamRoundEnd
    \/ StreamExhausted
    \/ FilterWithhold
    \/ FilterBreak
    \/ FilterPrint

Spec == Init /\ [][Next]_vars

----------------------------------------------------------------------------
(* accumulate_response on its own: any accumulated text, either flag *)

\* Accumulated texts a caller may pass: what earlier fragments can add up to.
PriorTexts == Fragments \cup {<<"a">> \o Repeat(Dagger, 4), <<"a", "a">>}

InitAcc ==
    /\ stream = FALSE
    /\ stop_sequence \in StopSequences
    /\ messages = InitialMessages(stop_sequence)
    /\ pc = "accumulate"
    /\ accumulated_response \in PriorTexts
    /\ conversation_ongoing \in BOOLEAN
    /\ conversation = LastContent(messages)
    /\ current_response = <<>>
    /\ value = NoValue
    /\ result = NoValue
    /\ double_dagger_count = 0
    /\ printed = <<>>
    /\ exc = NoValue
    /\ calls = 0
    /\ delivered = <<>>
    /\ yielded = <<>>
    /\ thrown = NoValue

\* One call accumulate_response(f, accumulated_response, conversation_ongoing,
\* conversation, stop_sequence), its results assigned as the drivers assign them.
AccumulateCall(f) ==
    /\ pc = "accumulate"
    /\ current_response' = f
    /\ LET r == accumulate_response(f, accumulated_response, conversation_ongoing,
                                    conversation, stop_sequence)
       IN  /\ accumulated_response' = r.accumulated_response
           /\ conversation_ongoing' = r.conversation_ongoing
           /\ conversation' = r.conversation
    /\ pc' = "accumulated"
    /\ UNCHANGED <<stream, stop_sequence, messages, value, result,
                   double_dagger_count, printed, exc, calls, delivered, yielded,
                   thrown>>

NextAcc == \E f \in Fragments : AccumulateCall(f)

SpecAcc == InitAcc /\ [][NextAcc]_vars

----------------------------------------------------------------------------
(* What the transport has done, read off its own record *)

\* The fragment of each round: the text the round's call delivered.
AllFragments == [i \in 1..Len(delivered) |-> Concat(delivered[i])]

HasStop(i) == Contains(stop_sequence, AllFragments[i])

\* The non-empty chunks among all chunks delivered, in delivery order.
NonEmptyDelivered == SelectSeq(Concat(delivered), LAMBDA c : c # <<>>)

RECURSIVE Transcript(_)
Transcript(frags) ==
    IF frags = <<>> THEN <<>>
    ELSE AssistantTag \o Head(frags) \o ContinueDirective \o Transcript(Tail(frags))

\* The chunks the consumer's loop body has finished with.
Processed == IF pc = "yield" THEN SubSeq(yielded, 1, Len(yielded) - 1) ELSE yielded

\* The chunks withheld since the last emission: the trailing chunks with a dagger.
RECURSIVE Withheld(_)
Withheld(seq) ==
    IF seq = <<>> \/ ~Contains(<<Dagger>>, seq[Len(seq)]) THEN <<>>
    ELSE Append(Withheld(SubSeq(seq, 1, Len(seq) - 1)), seq[Len(seq)])

SentinelOnly(chunk) == chunk # <<>> /\ \A i \in 1..Len(chunk) : chunk[i] = Dagger

LeadingDaggers(text) ==
    IF \A i \in 1..Len(text) : text[i] = Dagger THEN Len(text)
    ELSE (CHOOSE i \in 1..Len(text) :
              text[i] # Dagger /\ \A j \in 1..(i - 1) : text[j] = Dagger) - 1

----------------------------------------------------------------------------
(* Claims *)

\* C1: at every test of call_gpt's while condition, and so when the loop exits,
\* accumulated_response is fragment 1 \o ... \o fragment N in arrival order.
C1_AccumulatedIsConcatenation ==
    (~stream /\ pc = "while") => accumulated_response = Concat(AllFragments)

C1_Witness ==
    /\ ~stream /\ pc = "while" /\ ~conversation_ongoing
    /\ Len(delivered) = 3
    /\ AllFragments[1] # <<>> /\ AllFragments[2] # <<>>
    /\ AllFragments[1] # AllFragments[2] /\ AllFragments[2] # AllFragments[3]

\* C2: call_gpt makes exactly N transport calls, N the first round whose own
\* fragment contains the stop sequence: while the loop runs no fragment so far
\* contains it, and the loop has ended exactly when the last one does.
C2_ExactlyNCalls ==
    (~stream /\ pc \in {"while", "returned"}) =>
        /\ calls = Len(delivered)
        /\ \A i \in 1..(calls - 1) : ~HasStop(i)
        /\ calls > 0 => (HasStop(calls) <=> ~conversation_ongoing)
        /\ pc = "returned" => calls > 0 /\ HasStop(calls)

C2_Witness ==
    /\ ~stream /\ pc = "returned" /\ calls = 3
    /\ Contains(stop_sequence, AllFragments[1] \o AllFragments[2])

\* C3: accumulate_response called with the flag true returns the flag false
\* exactly when the stop sequence is a substring of the current fragment,
\* whatever the accumulated text holds.
C3_FlagFromFragmentAlone ==
    [][(pc = "accumulate" /\ conversation_ongoing) =>
          (conversation_ongoing' = FALSE <=>
              Contains(stop_sequence, current_response'))]_vars

C3_Witness ==
    /\ pc = "accumulated" /\ conversation_ongoing
    /\ current_response # <<>>
    /\ Contains(stop_sequence, accumulated_response)
    /\ ~Contains(stop_sequence,
                 SubSeq(accumulated_response, 1,
                        Len(accumulated_response) - Len(current_response)))

\* C4: the string call_gpt returns contains no occurrence of the stop sequence
\* and has no leading or trailing whitespace.
C4_ResultHasNoStop ==
    (~stream /\ pc = "returned") =>
        /\ ~Contains(stop_sequence, result)
        /\ result # <<>> =>
              result[1] \notin Whitespace /\ result[Len(result)] \notin Whitespace

\* C5: after k completed rounds of either driver the trailing user message is
\* the initial prompt followed, per round in order, by the assistant tag, the
\* round's fragment and the continuation directive, the last round included.
C5_TrailingContent ==
    (pc \in {"while", "returned", "end"}) =>
        LastContent(messages) = UserPrompt \o Transcript(AllFragments)

C5_Witness ==
    /\ stream /\ pc = "while" /\ ~conversation_ongoing
    /\ Len(delivered) = 2 /\ Len(delivered[2]) >= 2
    /\ AllFragments[1] # <<>>

\* C6: when the transport raises in round k of call_gpt the caller gets that
\* exception and no text, nothing is printed, the accumulated text and the
\* trailing message are those of round k-1, and nothing happens afterwards.
C6_RaisePropagates ==
    /\ []((~stream /\ pc = "raised") =>
            /\ exc = thrown /\ exc \in Exceptions
            /\ result = NoValue /\ printed = <<>>
            /\ calls = Len(delivered) + 1
            /\ accumulated_response = Concat(AllFragments)
            /\ LastContent(messages) = UserPrompt \o Transcript(AllFragments))
    /\ [][(~stream /\ pc = "raised") =>
            UNCHANGED <<calls, delivered, messages, result, exc>>]_vars

C6_Witness ==
    /\ ~stream /\ pc = "raised" /\ calls = 2
    /\ accumulated_response # <<>> /\ result = NoValue

\* C7: when the transport raises in round k of call_gpt_stream, at the call or
\* between chunks, the consumer has received every non-empty chunk delivered so
\* far, in order; it then gets the exception, and no chunk and no call follows.
C7_StreamRaise ==
    /\ []((stream /\ pc = "raised") =>
            /\ exc = thrown /\ exc \in Exceptions
            /\ yielded = NonEmptyDelivered)
    /\ [][(stream /\ pc = "raised") =>
            UNCHANGED <<calls, delivered, yielded, exc>>]_vars

C7_Witness ==
    /\ stream /\ pc = "raised"
    /\ calls = 2 /\ Len(delivered) = 2
    /\ Len(delivered[1]) >= 1 /\ Len(delivered[2]) >= 2
    /\ Len(yielded) >= 3

\* C8: the text printed by the streaming branch never contains the complete
\* stop sequence.
C8_StopNeverPrinted ==
    stream => ~Contains(stop_sequence, Concat(printed))

\* C9 as claimed: the streaming branch never prints the dagger.
C9_DaggerNeverPrinted ==
    (stream /\ stop_sequence = DefaultStopSequence) =>
        ~Contains(<<Dagger>>, Concat(printed))

\* C9: every emission of the streaming branch is k daggers, 0 <= k <= 4,
\* followed by a non-empty chunk it received that holds no dagger; so no chunk
\* holding a dagger is printed and never five daggers in a row.
C9_EmissionShape ==
    stream =>
        \A i \in 1..Len(printed) :
            LET k    == LeadingDaggers(printed[i])
                rest == SubSeq(printed[i], k + 1, Len(printed[i]))
            IN  /\ k < StopRunLength
                /\ rest # <<>>
                /\ ~Contains(<<Dagger>>, rest)
                /\ \E j \in 1..Len(yielded) : yielded[j] = rest

C9_Witness ==
    /\ stream
    /\ \E i \in 1..Len(printed) : LeadingDaggers(printed[i]) = StopRunLength - 1

\* C10: while the chunks withheld since the last emission are sentinel-only,
\* the pending count is the number of sentinel characters in them.
C10_PendingCountsCharacters ==
    (/\ stream /\ stop_sequence = DefaultStopSequence /\ pc # "break"
     /\ \A i \in 1..Len(Withheld(Processed)) : SentinelOnly(Withheld(Processed)[i]))
        => double_dagger_count = Len(Concat(Withheld(Processed)))

\* Some run of consecutive sentinel-only chunks of seq holds at least
\* StopRunLength sentinel characters.
SentinelRunCompleted(seq) ==
    \E i \in 1..Len(seq) : \E j \in i..Len(seq) :
        /\ \A k \in i..j : SentinelOnly(seq[k])
        /\ Len(Concat(SubSeq(seq, i, j))) >= StopRunLength

\* C11: once consecutive sentinel-only chunks have brought five sentinel
\* characters, however divided, the filter has stopped consuming: it is at its
\* break, so nothing later is taken or emitted.
C11_StopsAtCompletedRun ==
    (/\ stream /\ stop_sequence = DefaultStopSequence
     /\ SentinelRunCompleted(Processed))
        => pc = "break"

\* C12: without a transport failure a driver's loop has ended only if the last
\* round's fragment contains the stop sequence, it ends right after the first
\* such round (the loop condition is then false), and while no fragment
\* contains it the condition stays true and no error has been raised.
C12_LoopExitsOnStopOnly ==
    /\ pc \in {"returned", "end"} =>
          /\ calls > 0 /\ calls = Len(delivered)
          /\ HasStop(calls)
          /\ \A i \in 1..(calls - 1) : ~HasStop(i)
    /\ (pc = "while" /\ calls > 0) => (conversation_ongoing <=> ~HasStop(calls))
    /\ (pc = "while" /\ calls = 0) => conversation_ongoing
    /\ thrown = NoValue => (exc = NoValue /\ pc # "raised")

C12_Witness ==
    /\ stream /\ pc = "end" /\ calls = 2
    /\ stop_sequence = DefaultStopSequence
    /\ \A i \in 1..Len(delivered[2]) : ~Contains(stop_sequence, delivered[2][i])

\* C13: in every run of either driver messages stays the system message
\* followed by one user message, and a step changes at most the content of that
\* last message.
C13_OnlyLastContentChanges ==
    /\ [](/\ Len(messages) = 2
          /\ messages[1] = generate_system_message(SystemPrompt(stop_sequence))
          /\ messages[2].role = "user"
          /\ DOMAIN messages[2] = {"role", "content"})
    /\ [][/\ Len(messages') = Len(messages)
          /\ \A i \in 1..(Len(messages) - 1) : messages'[i] = messages[i]
          /\ messages'[Len(messages)].role = messages[Len(messages)].role]_vars

C13_Witness ==
    /\ pc = "while" /\ calls = 2 /\ Len(delivered) = 2
    /\ AllFragments[1] # <<>> /\ AllFragments[2] # <<>>
    /\ LastContent(messages) # UserPrompt

\* C14: what call_gpt_stream has yielded is exactly the non-empty chunks
\* delivered, unchanged and in delivery order; a chunk at the yield is not yet
\* part of the round's fragment; and the generator ends only after the first
\* round whose fragment contains the stop sequence.
C14_YieldsDeliveredChunks ==
    stream =>
        /\ yielded = NonEmptyDelivered
        /\ pc \in {"yield", "break"} =>
              /\ value = yielded[Len(yielded)]
              /\ current_response \o value = Concat(delivered[Len(delivered)])
        /\ pc = "for" => current_response = Concat(delivered[Len(delivered)])
        /\ pc = "end" =>
              /\ HasStop(Len(delivered))
              /\ \A i \in 1..(Len(delivered) - 1) : ~HasStop(i)

C14_Witness ==
    /\ stream /\ pc = "end" /\ Len(delivered) = 2
    /\ \E i \in 1..Len(Concat(delivered)) : Concat(delivered)[i] = <<>>
    /\ \E i \in 1..Len(yielded) : Contains(<<Dagger>>, yielded[i])
    /\ Len(yielded) >= 3

\* C15: call_gpt_stream tests for the stop sequence once per round, on the
\* concatenation of the round's chunks: inside a round the flag is still true
\* whatever has arrived, and after the round it is false exactly when the
\* round's chunks together contain the stop sequence, every chunk of the round
\* having been yielded.
C15_CheckOncePerRound ==
    stream =>
        /\ pc \in {"for", "yield", "break"} => conversation_ongoing
        /\ (pc = "while" /\ calls > 0) =>
              /\ ~conversation_ongoing <=>
                    Contains(stop_sequence,
                             Concat(SelectSeq(delivered[Len(delivered)],
                                              LAMBDA c : c # <<>>)))
              /\ current_response = Concat(delivered[Len(delivered)])
              /\ yielded = NonEmptyDelivered

C15_Witness ==
    /\ stream /\ pc = "while" /\ ~conversation_ongoing
    /\ LET last == delivered[Len(delivered)]
       IN  /\ \A i \in 1..Len(last) : ~Contains(stop_sequence, last[i])
           /\ \E n \in 1..(Len(last) - 1) :
                 /\ Contains(stop_sequence, Concat(SubSeq(last, 1, n)))
                 /\ last[n + 1] # <<>>

MixedChunk(chunk) == Contains(<<Dagger>>, chunk) /\ ~SentinelOnly(chunk)

\* C16: when the filter has handled a chunk that mixes the sentinel with other
\* content, it has emitted the pending sentinels followed by that chunk
\* verbatim and the pending count is 0.
C16_MixedChunkEmitted ==
    (/\ stream /\ stop_sequence = DefaultStopSequence /\ pc # "break"
     /\ Processed # <<>> /\ MixedChunk(Processed[Len(Processed)]))
        => LET chunk == Processed[Len(Processed)]
               k     == Len(Concat(Withheld(SubSeq(Processed, 1, Len(Processed) - 1))))
           IN  /\ double_dagger_count = 0
               /\ printed # <<>>
               /\ printed[Len(printed)] = Repeat(Dagger, k) \o chunk

\* The chunks of seq that hold no dagger.
DaggerFree(seq) == SelectSeq(seq, LAMBDA c : ~Contains(<<Dagger>>, c))

\* C17: the transport is asked for a chunk or a stream only when the consumer
\* has dealt with every chunk yielded so far; a new round starts only when the
\* trailing message records every earlier round in full; and once the consumer
\* has left its loop at count 5 no chunk, call or conversation change follows.
C17_PullBased ==
    /\ [][(stream /\ delivered' # delivered) =>
            /\ Len(printed) = Len(DaggerFree(yielded))
            /\ double_dagger_count = Len(Withheld(yielded))]_vars
    /\ [][(stream /\ calls' # calls) =>
            /\ LastContent(messages) = UserPrompt \o Transcript(AllFragments)
            /\ yielded = NonEmptyDelivered
            /\ calls > 0 => current_response = Concat(delivered[Len(delivered)])]_vars
    /\ [][(stream /\ double_dagger_count = StopRunLength) =>
            UNCHANGED <<delivered, calls, messages, yielded, printed,
                        accumulated_response>>]_vars

C17_Witness ==
    /\ stream /\ pc = "break" /\ calls = 2
    /\ double_dagger_count = StopRunLength
    /\ LastContent(messages) # UserPrompt

\* call_gpt's locals before its loop.
CallGptStart ==
    [accumulated_response |-> <<>>, conversation_ongoing |-> TRUE,
     conversation |-> UserPrompt, calls |-> 0]

\* call_gpt's while loop run on the fragments frags the transport returns, from
\* locals st: it stops at the first round that clears the flag.
RECURSIVE CallGptLoop(_, _)
CallGptLoop(frags, st) ==
    IF frags = <<>> \/ ~st.conversation_ongoing THEN st
    ELSE LET r == accumulate_response(Head(frags), st.accumulated_response,
                                      st.conversation_ongoing, st.conversation,
                                      stop_sequence)
         IN  CallGptLoop(Tail(frags),
                         [accumulated_response |-> r.accumulated_response,
                          conversation_ongoing |-> r.conversation_ongoing,
                          conversation |-> r.conversation,
                          calls |-> st.calls + 1])

\* C18: at every loop head either driver stands where call_gpt's loop stands
\* after the same fragments: the same number of rounds, flag, accumulated text
\* and trailing message; and in call_gpt_stream the chunks yielded so far
\* concatenate to that accumulated text.
C18_StreamMatchesBuffered ==
    pc = "while" =>
        LET b == CallGptLoop(AllFragments, CallGptStart)
        IN  /\ calls = b.calls
            /\ conversation_ongoing = b.conversation_ongoing
            /\ accumulated_response = b.accumulated_response
            /\ LastContent(messages) = b.conversation
            /\ stream => Concat(yielded) = b.accumulated_response

C18_Witness ==
    /\ stream /\ pc = "while" /\ ~conversation_ongoing /\ calls = 2
    /\ Len(delivered[1]) >= 2 /\ Len(delivered[2]) >= 2
    /\ \E i \in 1..Len(delivered[2]) : delivered[2][i] = <<>>
    /\ Len(yielded) >= 3

\* All text delivered so far, chunk after chunk.
DeliveredText == Concat(Concat(delivered))

\* C19: the filter leaves its loop only on text that contains the complete
\* stop sequence, and once a finished round's fragment contained it the
\* display shows nothing of what was delivered.
C19_FilterAgreesWithAccumulator ==
    (stream /\ stop_sequence = DefaultStopSequence) =>
        /\ pc = "break" => Contains(stop_sequence, DeliveredText)
        /\ (pc = "end" /\ Len(delivered) = 1
              /\ SubSeq(DeliveredText, 1, StopRunLength) = stop_sequence)
              => printed = <<>>

\* The stop sequence occurs in text once only, at its end.
StopOnceAtEnd(text) ==
    /\ Len(text) >= Len(stop_sequence)
    /\ SubSeq(text, Len(text) - Len(stop_sequence) + 1, Len(text)) = stop_sequence
    /\ ~Contains(stop_sequence, SubSeq(text, 1, Len(text) - 1))

\* C20: when the stop sequence occurs once only, at the end of the final round,
\* the text the streaming branch has printed when it finishes is the delivered
\* text with the stop sequence removed.
C20_DisplayIsDocument ==
    (/\ stream /\ stop_sequence = DefaultStopSequence
     /\ pc \in {"end", "break"}
     /\ StopOnceAtEnd(DeliveredText))
        => Concat(printed) = Replace(DeliveredText, stop_sequence)

====
